---- MODULE Spec2Model ----
(***************************************************************************)
(* Model of src-tauri/src/main.rs: the supervisor of the Python backend    *)
(* child process (start_backend / stop_backend / close_app over the        *)
(* BackendProcess slot, with main's auto-start task and its window-close   *)
(* stop tasks) and the status poller (start_update / poll_update_status).  *)
(***************************************************************************)
EXTENDS Naturals, Sequences, FiniteSets

\* ------------------------------------------------------------------ bounds
\* Number of concurrently running command invocations (tasks of the runtime).
NumTasks == 2
\* Number of child processes the OS lets the supervisor spawn in one behaviour.
MaxChildren == 3

\* ------------------------------------------------------- supervisor: state
VARIABLES
    slot,       \* BackendProcess: Option<Child>; None or the id of a child
    lock,       \* the tokio Mutex around the slot: NoTask or the holding task
    child,      \* OS view of every child id: "unspawned" | "running" | "exited"
    pc,         \* per task: where it is inside start_backend / stop_backend
    op,         \* per task: the command it is executing
    held,       \* per task: the Child taken out of the slot by stop_backend
    started,    \* number of backend_started events emitted so far
    last,       \* the call that released the lock last: [op, res, slot]
    before,     \* the call that released the lock before that one
    exited      \* app_handle.exit(0) has been called

supVars == <<slot, lock, child, pc, op, held, started, last, before, exited>>

\* ----------------------------------------------------------- poller: state
VARIABLES
    rpc,            \* per run: "unspawned" | "polling" | "done"
    last_log_count, \* per run: the local of poll_update_status
    events,         \* per run: the events it emitted through emit_all, in order
    outcomes,       \* per run: what each of its getStatus requests yielded
    status,         \* per run: what the loop body read of the ProgressData decoded last
    appendOnly,     \* per run: every decoded snapshot's logs extended the previous one's
    lastPost,       \* what the last POST /update yielded
    updRes,         \* what the last start_update call returned
    callsLeft,      \* start_update calls the behaviour may still make
    pollsLeft,      \* getStatus requests the behaviour may still make
    logsCap         \* longest log sequence the remote service returns

pollVars == <<rpc, last_log_count, events, outcomes, status, appendOnly, lastPost,
              updRes, callsLeft, pollsLeft, logsCap>>

vars == <<supVars, pollVars>>

None == 0
NoTask == 0
\* The task spawned by main's setup hook, which calls start_backend.
AutoStart == 1

Tasks == 1..NumTasks
Children == 1..MaxChildren

AlreadyRunning == "Backend already running"
StartedOk == "Backend started successfully"
SpawnFailed == "Failed to start backend"
Stopped == "Backend stopped"
WasNotRunning == "Backend was not running"
KillFailed == "Failed to stop backend"

Running == {c \in Children : child[c] = "running"}
Spawned == {c \in Children : child[c] # "unspawned"}

\* Mutex::lock().await completes only when no task holds the guard.
LockFreeBroken == TRUE
LockFree == lock = NoTask

\* Child::try_wait on the handle c: Ok(None) while the child runs; once it has
\* exited Ok(Some(status)), or Err when the OS no longer knows the child.
TryWaitAlwaysExited(c) == {"OkSome"}
TryWaitAlwaysRunning(c) == {"OkNone"}
TryWait(c) == IF child[c] = "running" THEN {"OkNone"} ELSE {"OkSome", "Err"}

\* Child::kill on a handle whose status was never collected: Ok, after which
\* the child terminates, or Err, which leaves the child as it was.
Kill == {"Ok", "Err"}

\* Command::spawn: Ok(child) with a fresh child, or Err.
SpawnOutcomes == IF Spawned # Children THEN {"Ok", "Err"} ELSE {"Err"}
NewChild == CHOOSE c \in Children : child[c] = "unspawned" /\
                \A d \in Children : child[d] = "unspawned" => c <= d

\* Where a task is once stop_backend or start_backend has returned: close_app
\* still has app_handle.exit(0) to call, any other caller is done.
AfterReturn(t) == IF op[t] = "close" THEN "close_exit" ELSE "idle"

\* The function returns r: the guard is dropped, and the caller goes on.
Return(t, r, s) ==
    /\ pc' = [pc EXCEPT ![t] = AfterReturn(t)]
    /\ op' = [op EXCEPT ![t] = "none"]
    /\ lock' = NoTask
    /\ last' = [op |-> IF op[t] = "close" THEN "stop" ELSE op[t], res |-> r, slot |-> s]
    /\ before' = last

\* The function goes on to the next step, still holding the guard.
Goto(t, l) ==
    /\ pc' = [pc EXCEPT ![t] = l]
    /\ UNCHANGED <<op, lock, last, before>>

\* ---------------------------------------------------------- start_backend
\* The frontend invokes start_backend.
StartCall(t) ==
    /\ ~exited
    /\ pc[t] = "idle"
    /\ pc' = [pc EXCEPT ![t] = "start_lock"]
    /\ op' = [op EXCEPT ![t] = "start"]
    /\ UNCHANGED <<slot, lock, child, held, started, last, before, exited>>
    /\ UNCHANGED pollVars

\* let mut process_guard = backend_process.0.lock().await;
StartLock(t) ==
    /\ ~exited
    /\ pc[t] = "start_lock"
    /\ LockFree
    /\ lock' = t
    /\ pc' = [pc EXCEPT ![t] = "start_check"]
    /\ UNCHANGED <<slot, child, op, held, started, last, before, exited>>
    /\ UNCHANGED pollVars

\* *process_guard = None, after try_wait returned Ok(Some(_)) or Err(_).
ClearedKeeps == slot
Cleared == None

\* if let Some(ref mut child) = *process_guard { match child.try_wait() ... }
StartCheck(t) ==
    /\ ~exited
    /\ pc[t] = "start_check"
    /\ \/ /\ slot = None
          /\ Goto(t, "start_spawn")
          /\ UNCHANGED slot
       \/ /\ slot # None
          /\ \E w \in TryWait(slot) :
                \/ /\ w = "OkNone"
                   /\ Return(t, AlreadyRunning, slot)
                   /\ UNCHANGED slot
                \/ /\ w \in {"OkSome", "Err"}
                   /\ slot' = Cleared
                   /\ Goto(t, "start_spawn")
    /\ UNCHANGED <<child, held, started, exited>>
    /\ UNCHANGED pollVars

\* match Command::new("python")...spawn(): Ok stores the child, Err returns.
StartSpawn(t) ==
    /\ ~exited
    /\ pc[t] = "start_spawn"
    /\ \E o \in SpawnOutcomes :
          \/ /\ o = "Ok"
             /\ slot' = NewChild
             /\ child' = [child EXCEPT ![NewChild] = "running"]
             /\ Goto(t, "start_sleep")
          \/ /\ o = "Err"
             /\ Return(t, SpawnFailed, slot)
             /\ UNCHANGED <<slot, child>>
    /\ UNCHANGED <<held, started, exited>>
    /\ UNCHANGED pollVars

\* let _ = app_handle.emit_all("backend_started", ());
EmitSkipped == started
EmitBackendStarted == started + 1

\* The 2 s sleep is over: emit backend_started and return Ok.
StartWake(t) ==
    /\ ~exited
    /\ pc[t] = "start_sleep"
    /\ started' = EmitBackendStarted
    /\ Return(t, StartedOk, slot)
    /\ UNCHANGED <<slot, child, held, exited>>
    /\ UNCHANGED pollVars

\* ----------------------------------------------------------- stop_backend
\* The frontend invokes stop_backend, or close_app which calls it first.
StopCall(t) ==
    /\ ~exited
    /\ pc[t] = "idle"
    /\ \E o \in {"stop", "close"} : op' = [op EXCEPT ![t] = o]
    /\ pc' = [pc EXCEPT ![t] = "stop_lock"]
    /\ UNCHANGED <<slot, lock, child, held, started, last, before, exited>>
    /\ UNCHANGED pollVars

\* A window's CloseRequested event: main's handler spawns a task that calls
\* stop_backend. The auto-start task is not one of these.
CloseRequested(t) ==
    /\ ~exited
    /\ t # AutoStart
    /\ pc[t] = "idle"
    /\ op' = [op EXCEPT ![t] = "window_close"]
    /\ pc' = [pc EXCEPT ![t] = "stop_lock"]
    /\ UNCHANGED <<slot, lock, child, held, started, last, before, exited>>
    /\ UNCHANGED pollVars

\* let mut process_guard = backend_process.0.lock().await;
StopLock(t) ==
    /\ ~exited
    /\ pc[t] = "stop_lock"
    /\ LockFree
    /\ lock' = t
    /\ pc' = [pc EXCEPT ![t] = "stop_take"]
    /\ UNCHANGED <<slot, child, op, held, started, last, before, exited>>
    /\ UNCHANGED pollVars

\* close_app: after stop_backend returned and its guard was dropped,
\* app_handle.exit(0), a step of its own: other tasks run in between.
CloseExit(t) ==
    /\ ~exited
    /\ pc[t] = "close_exit"
    /\ exited' = TRUE
    /\ pc' = [pc EXCEPT ![t] = "idle"]
    /\ UNCHANGED <<slot, lock, child, op, held, started, last, before>>
    /\ UNCHANGED pollVars

\* Option::take leaves None in the slot.
TakeKeeps == slot
TakeLeaves == None

\* if let Some(mut child) = process_guard.take() { match child.kill() ... }
StopTake(t) ==
    /\ ~exited
    /\ pc[t] = "stop_take"
    /\ \/ /\ slot = None
          /\ Return(t, WasNotRunning, None)
          /\ UNCHANGED <<slot, held>>
       \/ /\ slot # None
          /\ slot' = TakeLeaves
          /\ \E k \in Kill :
                \/ /\ k = "Ok"
                   /\ held' = [held EXCEPT ![t] = slot]
                   /\ Goto(t, "stop_wait")
                \/ /\ k = "Err"
                   /\ Return(t, KillFailed, slot')
                   /\ UNCHANGED held
    /\ UNCHANGED <<child, started, exited>>
    /\ UNCHANGED pollVars

\* let _ = child.wait(): blocks until the killed child has exited.
StopWait(t) ==
    /\ ~exited
    /\ pc[t] = "stop_wait"
    /\ child' = [child EXCEPT ![held[t]] = "exited"]
    /\ held' = [held EXCEPT ![t] = None]
    /\ Return(t, Stopped, slot)
    /\ UNCHANGED <<slot, started, exited>>
    /\ UNCHANGED pollVars

\* ------------------------------------------------------------ environment
\* A running child process exits on its own.
ChildExit(c) ==
    /\ child[c] = "running"
    /\ child' = [child EXCEPT ![c] = "exited"]
    /\ UNCHANGED <<slot, lock, pc, op, held, started, last, before, exited>>
    /\ UNCHANGED pollVars

SupNext ==
    \/ \E t \in Tasks : StartCall(t)
    \/ \E t \in Tasks : StartLock(t)
    \/ \E t \in Tasks : StartCheck(t)
    \/ \E t \in Tasks : StartSpawn(t)
    \/ \E t \in Tasks : StartWake(t)
    \/ \E t \in Tasks : StopCall(t)
    \/ \E t \in Tasks : StopLock(t)
    \/ \E t \in Tasks : StopTake(t)
    \/ \E t \in Tasks : StopWait(t)
    \/ \E t \in Tasks : CloseExit(t)
    \/ \E c \in Children : ChildExit(c)


\* ---------------------------------------------------------- poller: bounds
\* Longest log sequence a status snapshot carries.
MaxLogs == 2
\* Number of getStatus requests of the one poll run of PollSpec.
MaxPolls == 3
\* Number of start_update calls, and so of poll runs, of UpdateSpec.
MaxRuns == 2
\* Number of getStatus requests all the poll runs of UpdateSpec make together.
MaxSharedPolls == 2
\* Longest log sequence a status snapshot carries under UpdateSpec.
MaxSharedLogs == 1


Runs == 1..MaxRuns

\* LogEntry values, taken as opaque.
LogEntries == {"a", "b"}
LogSeqs == UNION {[1..n -> LogEntries] : n \in 0..MaxLogs}
\* (progress, total) pairs of a snapshot.
ProgressVals == {<<1, 5>>, <<5, 5>>}
\* Option<String> and Option<StatusReport>: <<>> is None, <<v>> is Some(v).
Errors == {<<>>, <<"boom">>}
Reports == {<<>>, <<"report">>}

\* ProgressData as decoded from the body of GET /status.
Snapshots ==
    {[progress |-> p[1], total |-> p[2], logs |-> l, completed |-> c, error |-> e,
      status_report |-> sr] :
        p \in ProgressVals, l \in LogSeqs, c \in BOOLEAN, e \in Errors, sr \in Reports}

NoStatus == [progress |-> 0, total |-> 0, logs |-> <<>>, completed |-> FALSE,
             error |-> <<>>, status_report |-> <<>>]

\* client.get(".../status").send().await, then response.json::<ProgressData>().
GetStatus ==
    {[kind |-> "transport", data |-> NoStatus], [kind |-> "decode", data |-> NoStatus]}
        \cup {[kind |-> "ok", data |-> s] : s \in {x \in Snapshots : Len(x.logs) <= logsCap}}

\* client.post(".../update").send().await: a transport error or an HTTP status.
PostOutcomes ==
    {[sent |-> "transport", code |-> 0]}
        \cup {[sent |-> "http", code |-> c] : c \in {200, 300}}
NoPost == [sent |-> "none", code |-> 0]

\* response.status().is_success()
IsSuccessUpTo400(st) == st \in 200..399
IsSuccess(st) == st \in 200..299

Event(k, n, v) == [poll |-> k, name |-> n, payload |-> v]

\* emit_all("update_progress", {"progress": status.progress, "total": status.total})
ProgressEvent(s, k) == Event(k, "update_progress", <<s.progress, s.total>>)

\* &status.logs[last_log_count..], taken when status.logs.len() > last_log_count
NewLogsFromStart(logs, n) == IF Len(logs) > n THEN SubSeq(logs, 1, Len(logs) - n) ELSE <<>>
NewLogs(logs, n) == IF Len(logs) > n THEN SubSeq(logs, n + 1, Len(logs)) ELSE <<>>

\* last_log_count = status.logs.len(), inside the same if
NextLogCountUnguarded(logs, n) == Len(logs)
NextLogCount(logs, n) == IF Len(logs) > n THEN Len(logs) ELSE n

LogEvents(s, n, k) ==
    [i \in 1..Len(NewLogs(s.logs, n)) |-> Event(k, "log_message", NewLogs(s.logs, n)[i])]

\* if status.completed { update_complete if Some(report); update_error if Some(error) }
TerminalEventsAlwaysMarked(s, k) ==
    IF s.completed
    THEN <<Event(k, "update_complete",
                 IF s.status_report # <<>> THEN s.status_report[1] ELSE "none")>>
         \o (IF s.error # <<>>
             THEN <<Event(k, "update_error", s.error[1])>> ELSE <<>>)
    ELSE <<>>
TerminalEventsEitherOr(s, k) ==
    IF s.completed
    THEN IF s.status_report # <<>>
         THEN <<Event(k, "update_complete", s.status_report[1])>>
         ELSE IF s.error # <<>> THEN <<Event(k, "update_error", s.error[1])>> ELSE <<>>
    ELSE <<>>
TerminalEvents(s, k) ==
    IF s.completed
    THEN (IF s.status_report # <<>>
          THEN <<Event(k, "update_complete", s.status_report[1])>> ELSE <<>>)
         \o (IF s.error # <<>>
             THEN <<Event(k, "update_error", s.error[1])>> ELSE <<>>)
    ELSE <<>>

\* Everything one successfully decoded poll emits, in the order of the loop body.
EmittedLogsFirst(s, n, k) == LogEvents(s, n, k) \o <<ProgressEvent(s, k)>> \o TerminalEvents(s, k)
Emitted(s, n, k) == <<ProgressEvent(s, k)>> \o LogEvents(s, n, k) \o TerminalEvents(s, k)

\* Err(_) => break: the loop ends when the request itself fails.
AfterTransportFailureRetry == "polling"
AfterTransportFailure == "done"

\* The loop goes on after a body that could not be decoded (no break there).
AfterDecodeFailureStop == "done"
AfterDecodeFailure == "polling"

\* The loop goes on after a decoded snapshot unless status.completed (break).
AfterSnapshotAlwaysStops(s) == "done"
AfterSnapshot(s) == IF s.completed THEN "done" ELSE "polling"

\* The fields of a decoded snapshot the loop body reads: error and status_report
\* are looked at only inside if status.completed.
FieldsRead(s) == IF s.completed THEN s ELSE [s EXCEPT !.error = <<>>, !.status_report = <<>>]

IsPrefix(a, b) == Len(a) <= Len(b) /\ SubSeq(b, 1, Len(a)) = a

\* The state main builds: an empty slot behind an unlocked mutex, the auto-start
\* task about to call start_backend, no poll run. calls and polls are the
\* start_update calls and getStatus requests the behaviour may make.
InitWith(calls, polls, logs) ==
    /\ slot = None
    /\ lock = NoTask
    /\ child = [c \in Children |-> "unspawned"]
    /\ pc = [t \in Tasks |-> IF t = AutoStart THEN "start_lock" ELSE "idle"]
    /\ op = [t \in Tasks |-> IF t = AutoStart THEN "start" ELSE "none"]
    /\ held = [t \in Tasks |-> None]
    /\ started = 0
    /\ last = [op |-> "none", res |-> "none", slot |-> None]
    /\ before = [op |-> "none", res |-> "none", slot |-> None]
    /\ exited = FALSE
    /\ rpc = [r \in Runs |-> "unspawned"]
    /\ last_log_count = [r \in Runs |-> 0]
    /\ events = [r \in Runs |-> <<>>]
    /\ outcomes = [r \in Runs |-> <<>>]
    /\ status = [r \in Runs |-> NoStatus]
    /\ appendOnly = [r \in Runs |-> TRUE]
    /\ lastPost = NoPost
    /\ updRes = "none"
    /\ callsLeft = calls
    /\ pollsLeft = polls
    /\ logsCap = logs

FreeRun == CHOOSE r \in Runs : rpc[r] = "unspawned" /\
               \A q \in Runs : rpc[q] = "unspawned" => r <= q

\* tokio::spawn(poll_update_status(app_handle_clone)): one new run.
SpawnRunExclusive ==
    IF \E r \in Runs : rpc[r] = "polling" THEN rpc ELSE [rpc EXCEPT ![FreeRun] = "polling"]
SpawnRun == [rpc EXCEPT ![FreeRun] = "polling"]

\* start_update: POST /update; on a 2xx status spawn the poller and return Ok.
StartUpdate ==
    /\ callsLeft > 0
    /\ \E r \in Runs : rpc[r] = "unspawned"
    /\ callsLeft' = callsLeft - 1
    /\ \E p \in PostOutcomes :
          /\ lastPost' = p
          /\ \/ /\ p.sent = "http" /\ IsSuccess(p.code)
                /\ rpc' = SpawnRun
                /\ updRes' = "Update started"
             \/ /\ p.sent = "http" /\ ~IsSuccess(p.code)
                /\ updRes' = "Failed to start update"
                /\ UNCHANGED rpc
             \/ /\ p.sent = "transport"
                /\ updRes' = "Failed to start update: transport"
                /\ UNCHANGED rpc
    /\ UNCHANGED <<last_log_count, events, outcomes, status, appendOnly, pollsLeft, logsCap>>
    /\ UNCHANGED supVars

\* The body of the loop of poll_update_status, run by r on an answer among
\* answers, up to the break or through the 500 ms sleep.
Iteration(r, answers) ==
    /\ \E g \in answers :
          /\ outcomes' = [outcomes EXCEPT ![r] = Append(@, g.kind)]
          /\ \/ /\ g.kind = "transport"
                /\ rpc' = [rpc EXCEPT ![r] = AfterTransportFailure]
                /\ UNCHANGED <<last_log_count, events, status, appendOnly>>
             \/ /\ g.kind = "decode"
                /\ rpc' = [rpc EXCEPT ![r] = AfterDecodeFailure]
                /\ UNCHANGED <<last_log_count, events, status, appendOnly>>
             \/ /\ g.kind = "ok"
                /\ events' = [events EXCEPT ![r] =
                       @ \o Emitted(g.data, last_log_count[r], Len(outcomes[r]) + 1)]
                /\ last_log_count' = [last_log_count EXCEPT ![r] =
                       NextLogCount(g.data.logs, @)]
                /\ rpc' = [rpc EXCEPT ![r] = AfterSnapshot(g.data)]
                /\ status' = [status EXCEPT ![r] = FieldsRead(g.data)]
                /\ appendOnly' = [appendOnly EXCEPT ![r] =
                       @ /\ IsPrefix(status[r].logs, g.data.logs)]
    /\ UNCHANGED <<lastPost, updRes, callsLeft, logsCap>>
    /\ UNCHANGED supVars

\* One iteration of the loop, on whatever the remote service answers.
Poll(r) ==
    /\ rpc[r] = "polling"
    /\ pollsLeft > 0
    /\ pollsLeft' = pollsLeft - 1
    /\ Iteration(r, GetStatus)

\* The answers that end a run: the request fails, or the snapshot is completed.
TerminalAnswers == {g \in GetStatus : g.kind = "transport" \/ (g.kind = "ok" /\ g.data.completed)}

\* One iteration of the loop once the remote service has come to the point
\* where it is either finished or unreachable.
PollFinal(r) ==
    /\ rpc[r] = "polling"
    /\ pollsLeft = 0
    /\ UNCHANGED pollsLeft
    /\ Iteration(r, TerminalAnswers)

PollNext ==
    \/ StartUpdate
    \/ \E r \in Runs : Poll(r)

\* ------------------------------------------------------- the whole program
Init == InitWith(MaxRuns, MaxSharedPolls, MaxSharedLogs)
Next == SupNext \/ PollNext
Spec == Init /\ [][Next]_vars

\* The supervisor alone: start_backend, stop_backend and close_app calls.
SupSpec == Init /\ [][SupNext]_vars

\* Several start_update calls, whose poll runs are active together.
UpdateSpec == Init /\ [][PollNext]_vars

\* One start_update call and the poll run it starts.
PollInit == InitWith(1, MaxPolls, MaxLogs)
PollSpec == PollInit /\ [][PollNext]_vars

\* ------------------------------------------------- poller: bounds, liveness
\* Number of getStatus requests the remote service answers before it is either
\* finished or unreachable, under LiveSpec.
MaxLivePolls == 2
\* Longest log sequence a status snapshot carries under LiveSpec.
MaxLiveLogs == 1

\* One start_update call and its poll run, against a remote service that after
\* MaxLivePolls answers of any kind is finished or unreachable. The runtime
\* schedules every spawned poller task, and every request comes to an end.
LiveInit == InitWith(1, MaxLivePolls, MaxLiveLogs)
LiveNext ==
    \/ StartUpdate
    \/ \E r \in Runs : Poll(r)
    \/ \E r \in Runs : PollFinal(r)
Fairness == \A r \in Runs : WF_vars(Poll(r)) /\ WF_vars(PollFinal(r))
LiveSpec == LiveInit /\ [][LiveNext]_vars /\ Fairness

\* Only start_backend is ever invoked: any number of concurrent start() calls.
StartNext ==
    \/ \E t \in Tasks : StartCall(t)
    \/ \E t \in Tasks : StartLock(t)
    \/ \E t \in Tasks : StartCheck(t)
    \/ \E t \in Tasks : StartSpawn(t)
    \/ \E t \in Tasks : StartWake(t)
    \/ \E c \in Children : ChildExit(c)

StartSpec == Init /\ [][StartNext]_vars

\* The auto-start task spawned by setup against everything that stops the
\* supervisor: the stop tasks spawned by window close requests, and the
\* frontend's stop_backend and close_app commands.
CloseNext ==
    \/ \E t \in Tasks : CloseRequested(t)
    \/ \E t \in Tasks : StopCall(t)
    \/ \E t \in Tasks : StopLock(t)
    \/ \E t \in Tasks : StopTake(t)
    \/ \E t \in Tasks : StopWait(t)
    \/ \E t \in Tasks : CloseExit(t)
    \/ StartLock(AutoStart)
    \/ StartCheck(AutoStart)
    \/ StartSpawn(AutoStart)
    \/ StartWake(AutoStart)
    \/ \E c \in Children : ChildExit(c)

CloseSpec == Init /\ [][CloseNext]_vars

\* ------------------------------------------------------ supervisor: claims
InCritical(t) == pc[t] \in {"start_check", "start_spawn", "start_sleep", "stop_take", "stop_wait"}

\* C1: under any interleaving of concurrent start_backend calls the check-and-spawn
\* runs under the lock: at most one call is inside it, a call that finds the
\* slot's child running returns "already running" and leaves the slot alone, a
\* child is spawned only while no child is running, the slot never gives up the
\* handle of a running child, and so at most one child is live, the slot's.
C1_StartAtomic ==
    /\ [](\A t \in Tasks : InCritical(t) => lock = t)
    /\ [](Cardinality(Running) <= 1 /\ \A c \in Running : slot = c)
    /\ [][\A t \in Tasks :
            /\ (pc[t] = "start_check" /\ pc'[t] # "start_check" /\ slot # None
                    /\ child[slot] = "running")
                 => (last'.res = AlreadyRunning /\ pc'[t] = "idle" /\ slot' = slot
                        /\ child' = child)
            /\ (pc[t] = "start_spawn" /\ pc'[t] = "start_sleep")
                 => (Running = {} /\ slot = None /\ Running' = {slot'})
            /\ (slot # None /\ slot' # slot) => child[slot] # "running"
       ]_supVars

\* C1 witness: of two start() calls one spawned the child, the other found it
\* running.
C1_Witness ==
    /\ before.op = "start" /\ before.res = StartedOk
    /\ last.op = "start" /\ last.res = AlreadyRunning
    /\ \E t \in Tasks : pc[t] = "start_lock"
    /\ Cardinality(Spawned) = 1 /\ slot \in Running

\* C2: at most one child launched by the supervisor is live, and a live child is
\* the one in the slot (or the one a stop_backend in progress has just taken and
\* is terminating).
C2_AtMostOneLiveChild ==
    /\ Cardinality(Running) <= 1
    /\ \A c \in Running : slot = c \/ \E t \in Tasks : held[t] = c

\* C3 as stated: a start() that follows a start() which stored a handle, with no
\* stop() between them, returns "already running", spawns nothing, leaves the
\* slot holding the first call's handle and emits no backend_started.
C3_Original ==
    [][\A t \in Tasks :
        (op[t] = "start" /\ pc[t] # "idle" /\ pc'[t] = "idle"
            /\ last.op = "start" /\ last.res = StartedOk)
          => (last'.res = AlreadyRunning /\ slot' = last.slot /\ started' = started
                /\ Spawned' = Spawned)
      ]_supVars

\* C3 amended: the same, provided the child stored by the first call is still
\* running when the second call checks it.
C3_SecondStartAlreadyRunning ==
    [][\A t \in Tasks :
        (pc[t] = "start_check" /\ pc'[t] # "start_check"
            /\ last.op = "start" /\ last.res = StartedOk
            /\ child[last.slot] = "running")
          => (last'.res = AlreadyRunning /\ pc'[t] = "idle" /\ slot' = last.slot
                /\ started' = started /\ child' = child)
      ]_supVars

\* C3 witness: a start() returned "already running" right after a start() that
\* spawned the child now in the slot.
C3_Witness ==
    /\ before.op = "start" /\ before.res = StartedOk
    /\ last.op = "start" /\ last.res = AlreadyRunning
    /\ slot = before.slot /\ slot \in Running /\ started = 1

StopReturns(t) == pc[t] \in {"stop_take", "stop_wait"} /\ pc'[t] \in {"idle", "close_exit"}

\* C4 as stated: a stop() that finds a handle returns "stopped", the stop() after
\* it returns "was not running" without kill or wait, and a stop() on an empty
\* slot returns "was not running" and leaves the slot empty.
C4_Original ==
    [][\A t \in Tasks :
        /\ (StopReturns(t) /\ (pc[t] = "stop_wait" \/ slot # None))
             => last'.res = Stopped
        /\ (StopReturns(t) /\ last.op = "stop")
             => (last'.res = WasNotRunning /\ child' = child)
        /\ (StopReturns(t) /\ pc[t] = "stop_take" /\ slot = None)
             => (last'.res = WasNotRunning /\ slot' = None)
      ]_supVars

\* C4 amended: a stop() that finds a handle returns "stopped", or an error when
\* the kill fails; either way the stop() after it returns "was not running"
\* without kill or wait, and a stop() on an empty slot returns "was not running"
\* and leaves the slot empty.
C4_StopTwice ==
    [][\A t \in Tasks :
        /\ (StopReturns(t) /\ pc[t] = "stop_wait") => last'.res = Stopped
        /\ (StopReturns(t) /\ pc[t] = "stop_take" /\ slot # None)
             => last'.res = KillFailed
        /\ (StopReturns(t) /\ last.op = "stop")
             => (pc[t] = "stop_take" /\ last'.res = WasNotRunning /\ child' = child
                    /\ held' = held /\ slot' = None)
        /\ (StopReturns(t) /\ pc[t] = "stop_take" /\ slot = None)
             => (last'.res = WasNotRunning /\ slot' = None /\ child' = child)
      ]_supVars

\* C4 witness: stop() returned "stopped" and the stop() after it "was not
\* running".
C4_Witness ==
    /\ before.op = "stop" /\ before.res = Stopped
    /\ last.op = "stop" /\ last.res = WasNotRunning
    /\ slot = None

\* ---------------------------------------------------------- poller: claims
Last(q) == q[Len(q)]
NumPolls(r) == Len(outcomes[r])
EventsOfPoll(r, k) == SelectSeq(events[r], LAMBDA e : e.poll = k)
EventsNamed(r, n) == SelectSeq(events[r], LAMBDA e : e.name = n)
Names(ev) == [i \in 1..Len(ev) |-> ev[i].name]
Payloads(ev) == [i \in 1..Len(ev) |-> ev[i].payload]
\* The log entries a run delivered through log_message, in order of emission.
Delivered(r) == Payloads(EventsNamed(r, "log_message"))
LogsOfPoll(r, k) ==
    Payloads(SelectSeq(events[r], LAMBDA e : e.poll = k /\ e.name = "log_message"))
Polled(r) == NumPolls(r) > 0
JustPolled(r) == NumPolls(r)' = NumPolls(r) + 1

\* A run that has ended makes no further request and emits no further event.
DoneIsFinal ==
    \A r \in Runs : rpc[r] = "done" =>
        (rpc'[r] = "done" /\ outcomes'[r] = outcomes[r] /\ events'[r] = events[r])

\* C5: while the decoded snapshots' logs are append-only, the log_message events
\* of a run, concatenated, are exactly the latest snapshot's logs, and each
\* decoded poll emits the entries by which the logs grew since the previous one,
\* as many as the growth of the length.
C5_LogDelta ==
    /\ [](\A r \in Runs : appendOnly[r] => Delivered(r) = status[r].logs)
    /\ [][\A r \in Runs :
            (JustPolled(r) /\ Last(outcomes'[r]) = "ok" /\ appendOnly'[r])
              => /\ Len(LogsOfPoll(r, NumPolls(r))') = Len(status'[r].logs) - Len(status[r].logs)
                 /\ status[r].logs \o LogsOfPoll(r, NumPolls(r))' = status'[r].logs
       ]_vars

\* C5 witness: three decoded polls whose logs grew by one entry, by none, then by
\* one, delivered as "a" then "b".
C5_Witness ==
    \E r \in Runs :
        /\ appendOnly[r] /\ outcomes[r] = <<"ok", "ok", "ok">>
        /\ LogsOfPoll(r, 1) = <<"a">> /\ LogsOfPoll(r, 2) = <<>> /\ LogsOfPoll(r, 3) = <<"b">>
        /\ status[r].logs = <<"a", "b">>

TerminalOfPoll(r, k) ==
    SelectSeq(events[r], LAMBDA e : e.poll = k /\ e.name \in {"update_complete", "update_error"})

\* C6: a decoded snapshot with completed set ends the run at that poll, after
\* update_complete with the report when one is present and then update_error with
\* the error when one is present; a decoded snapshot without completed emits
\* neither and leaves the run polling; an ended run polls and emits no more.
C6_TerminalSnapshot ==
    /\ [](\A r \in Runs : (Polled(r) /\ Last(outcomes[r]) = "ok") =>
            LET te == TerminalOfPoll(r, NumPolls(r))
                want == (IF status[r].status_report # <<>> THEN <<"update_complete">> ELSE <<>>)
                         \o (IF status[r].error # <<>> THEN <<"update_error">> ELSE <<>>)
            IN  IF status[r].completed
                THEN /\ rpc[r] = "done"
                     /\ Names(te) = want
                     /\ Payloads(te) = status[r].status_report \o status[r].error
                ELSE te = <<>> /\ rpc[r] = "polling")
    /\ [][DoneIsFinal]_vars

\* C6 witness: a terminal snapshot with both report and error ended the run after
\* update_complete and update_error.
C6_Witness ==
    \E r \in Runs :
        /\ rpc[r] = "done" /\ status[r].completed
        /\ Names(TerminalOfPoll(r, NumPolls(r))) = <<"update_complete", "update_error">>
        /\ Names(events[r])[Len(events[r])] = "update_error"

\* C7: a getStatus request that fails at the transport level emits no event for
\* that poll and ends the run, which polls no more; when it is the first poll
\* the run has emitted nothing at all.
C7_TransportFailure ==
    /\ [](\A r \in Runs : (Polled(r) /\ Last(outcomes[r]) = "transport") =>
            /\ rpc[r] = "done"
            /\ EventsOfPoll(r, NumPolls(r)) = <<>>
            /\ (NumPolls(r) = 1 => events[r] = <<>>))
    /\ [][/\ DoneIsFinal
          /\ \A r \in Runs : (JustPolled(r) /\ Last(outcomes'[r]) = "transport")
                => events'[r] = events[r]
       ]_vars

\* C7 witness: the first poll of a run failed at the transport level.
C7_Witness ==
    \E r \in Runs : outcomes[r] = <<"transport">> /\ rpc[r] = "done" /\ events[r] = <<>>

\* C8 as stated: a poll that yields no ProgressData, by a transport failure or by
\* a body that cannot be decoded, ends the run.
C8_Original ==
    \A r \in Runs : (Polled(r) /\ Last(outcomes[r]) \in {"transport", "decode"})
        => rpc[r] = "done"

\* C8 amended: a transport failure ends the run, with no retry; a body that
\* cannot be decoded emits nothing, changes nothing the run keeps, and leaves
\* the run polling.
C8_FailedPoll ==
    /\ [](\A r \in Runs : Polled(r) =>
            /\ Last(outcomes[r]) = "transport" => rpc[r] = "done"
            /\ Last(outcomes[r]) = "decode" =>
                 (rpc[r] = "polling" /\ EventsOfPoll(r, NumPolls(r)) = <<>>))
    /\ [][/\ DoneIsFinal
          /\ \A r \in Runs : (JustPolled(r) /\ Last(outcomes'[r]) = "decode")
                => /\ events'[r] = events[r]
                   /\ last_log_count'[r] = last_log_count[r]
                   /\ status'[r] = status[r]
       ]_vars

\* C8 witness: a run went on to a decoded poll after a body it could not decode.
C8_Witness ==
    \E r \in Runs : \E k \in 1..NumPolls(r) - 1 :
        outcomes[r][k] = "decode" /\ outcomes[r][k + 1] = "ok" /\ events[r] # <<>>

Rank(n) ==
    CASE n = "update_progress" -> 1
      [] n = "log_message" -> 2
      [] n = "update_complete" -> 3
      [] n = "update_error" -> 4

\* C9: the events of a run come poll by poll; a decoded poll emits exactly one
\* update_progress, first, carrying the snapshot's progress and total, then its
\* log_message events, then update_complete, then update_error; a poll that was
\* not decoded emits nothing.
C9_EventOrder ==
    \A r \in Runs :
        LET ev == events[r] IN
        /\ \A i \in 1..Len(ev) - 1 :
              \/ ev[i].poll < ev[i + 1].poll
              \/ ev[i].poll = ev[i + 1].poll /\ Rank(ev[i].name) <= Rank(ev[i + 1].name)
        /\ \A i \in 1..Len(ev) : ev[i].poll \in 1..NumPolls(r)
        /\ \A k \in 1..NumPolls(r) :
              IF outcomes[r][k] = "ok"
              THEN /\ EventsOfPoll(r, k)[1].name = "update_progress"
                   /\ Len(SelectSeq(EventsOfPoll(r, k), LAMBDA e : e.name = "update_progress")) = 1
              ELSE EventsOfPoll(r, k) = <<>>
        /\ (Polled(r) /\ Last(outcomes[r]) = "ok") =>
              EventsOfPoll(r, NumPolls(r))[1].payload = <<status[r].progress, status[r].total>>

\* C9 witness: snapshots {1/5, [a]} then {5/5, [a, b], completed, report} gave
\* progress(1/5), log(a), progress(5/5), log(b), update_complete.
C9_Witness ==
    \E r \in Runs :
        events[r] = << Event(1, "update_progress", <<1, 5>>), Event(1, "log_message", "a"),
                       Event(2, "update_progress", <<5, 5>>), Event(2, "log_message", "b"),
                       Event(2, "update_complete", "report") >>

Is2xx(p) == p.sent = "http" /\ p.code >= 200 /\ p.code < 300
SpawnedRuns == {r \in Runs : rpc[r] # "unspawned"}

\* C10: a start_update call spawns a poll run exactly when POST /update came back
\* with a 2xx status: then one run, not yet polled, and the call returns its
\* confirmation; otherwise the call returns an error and spawns nothing. The call
\* itself emits nothing, and a run that was never spawned polls and emits nothing.
C10_StartUpdateSpawns ==
    /\ [](\A r \in Runs : rpc[r] = "unspawned" => (events[r] = <<>> /\ outcomes[r] = <<>>))
    /\ [][callsLeft' # callsLeft =>
            /\ events' = events /\ outcomes' = outcomes /\ pollsLeft' = pollsLeft
            /\ IF Is2xx(lastPost')
               THEN /\ Cardinality(SpawnedRuns' \ SpawnedRuns) = 1
                    /\ \A r \in SpawnedRuns' \ SpawnedRuns : rpc'[r] = "polling"
                    /\ \A r \in SpawnedRuns : rpc'[r] = rpc[r]
                    /\ updRes' = "Update started"
               ELSE /\ rpc' = rpc
                    /\ updRes' # "Update started"
       ]_vars

\* C10 witness: of two start_update calls the first failed and the second, with
\* status 200, spawned the only run, which has not polled yet.
C10_Witness ==
    /\ callsLeft = 0 /\ lastPost = [sent |-> "http", code |-> 200]
    /\ updRes = "Update started"
    /\ \E r \in Runs : SpawnedRuns = {r} /\ rpc[r] = "polling" /\ outcomes[r] = <<>>

\* --------------------------------------------- supervisor: further claims
\* C11: the lock is held only across the check-and-spawn of start() and the
\* take-and-terminate of stop(): a start() that waits its 2 s grace period and
\* emits backend_started does not hold it, so another call can take it then.
C11_LockScope ==
    \A t \in Tasks :
        /\ lock = t => pc[t] \in {"start_check", "start_spawn", "stop_take", "stop_wait"}
        /\ pc[t] = "start_sleep" => lock = NoTask

\* -------------------------------------------------- poller: further claims
OtherRunsUntouched(r) ==
    \A q \in Runs \ {r} :
        /\ rpc'[q] = rpc[q] /\ last_log_count'[q] = last_log_count[q]
        /\ events'[q] = events[q] /\ outcomes'[q] = outcomes[q]

\* The events of run r come in the order of its polls and, within a poll, in
\* the order of the loop body; its log_message events are as many as its
\* watermark, one per index position.
OrderedOnItsOwn(r) ==
    /\ \A i \in 1..Len(events[r]) - 1 :
          \/ events[r][i].poll < events[r][i + 1].poll
          \/ /\ events[r][i].poll = events[r][i + 1].poll
             /\ Rank(events[r][i].name) <= Rank(events[r][i + 1].name)
    /\ Len(Delivered(r)) = last_log_count[r]

\* C12: poll runs are not mutually exclusive. A start_update call whose POST
\* came back 2xx spawns a new run whether or not earlier runs are still polling,
\* the new run starts with watermark 0 and no event, whichever active run comes
\* to its next poll makes it without waiting for the others, a poll of one run
\* touches nothing of the others, and each run on its own emits in
\* per-iteration order, each log position once.
C12_ConcurrentRuns ==
    /\ [](\A r \in Runs : OrderedOnItsOwn(r))
    /\ [](\A r \in Runs : (rpc[r] = "polling" /\ pollsLeft > 0) => ENABLED Poll(r))
    /\ [][/\ (callsLeft' # callsLeft /\ Is2xx(lastPost')) =>
                \E r \in Runs :
                    /\ rpc[r] = "unspawned" /\ rpc'[r] = "polling"
                    /\ last_log_count'[r] = 0 /\ events'[r] = <<>> /\ outcomes'[r] = <<>>
                    /\ OtherRunsUntouched(r)
          /\ \A r \in Runs : JustPolled(r) => OtherRunsUntouched(r)
       ]_vars

\* C12 witness: two runs are active together and each has delivered the same
\* log entry "a".
C12_Witness ==
    \E r, q \in Runs :
        /\ r # q /\ rpc[r] = "polling" /\ rpc[q] = "polling"
        /\ Delivered(r) = <<"a">> /\ Delivered(q) = <<"a">>

\* --------------------------------------- supervisor: claims on start()
\* C13: when the spawn in start() fails, the call returns the error at once,
\* without the grace-period wait and without backend_started, and the slot is
\* empty when it returns, also when the call had first cleared the handle of an
\* exited child.
C13_SpawnFailure ==
    [][\A t \in Tasks :
        (pc[t] = "start_spawn" /\ pc'[t] # "start_spawn" /\ Spawned' = Spawned)
          => /\ pc'[t] = "idle" /\ last'.op = "start" /\ last'.res = SpawnFailed
             /\ slot' = None /\ last'.slot = None
             /\ started' = started /\ child' = child /\ lock' = NoTask
      ]_supVars

\* C13 witness: a start() cleared the handle of the exited child its
\* predecessor had stored, failed to spawn and returned with the slot empty.
C13_Witness ==
    /\ before.op = "start" /\ before.res = StartedOk /\ before.slot # None
    /\ child[before.slot] = "exited"
    /\ last.op = "start" /\ last.res = SpawnFailed
    /\ slot = None /\ started = 1 /\ \A t \in Tasks : pc[t] = "idle"

\* C14: a start() that finds in the slot the handle of a child that is no
\* longer running (try_wait reports the exit, or fails) clears the slot and goes
\* on to spawn without returning; a successful spawn then stores a handle that
\* was never in the slot before, and the call returns "started" once the grace
\* period is over, with that handle still in the slot.
C14_StaleHandleCleared ==
    /\ [](\A t \in Tasks : pc[t] = "start_spawn" => slot = None)
    /\ [][\A t \in Tasks :
            /\ (pc[t] = "start_check" /\ pc'[t] # "start_check" /\ slot # None
                    /\ child[slot] # "running")
                 => (slot' = None /\ pc'[t] = "start_spawn" /\ last' = last
                        /\ child' = child /\ started' = started)
            /\ (pc[t] = "start_spawn" /\ pc'[t] # "start_spawn" /\ Spawned' # Spawned)
                 => (pc'[t] = "start_sleep" /\ slot' \notin Spawned /\ slot' \in Running'
                        /\ Spawned' = Spawned \cup {slot'} /\ last' = last)
            /\ (pc[t] = "start_sleep" /\ pc'[t] # "start_sleep")
                 => (pc'[t] = "idle" /\ last'.res = StartedOk /\ slot # None
                        /\ slot' = slot /\ last'.slot = slot)
       ]_supVars

\* C14 witness: a start() found the exited child of its predecessor in the
\* slot, and returned "started" with a second child in the slot.
C14_Witness ==
    /\ before.op = "start" /\ before.res = StartedOk
    /\ last.op = "start" /\ last.res = StartedOk
    /\ before.slot # last.slot /\ child[before.slot] = "exited"
    /\ slot = last.slot /\ slot \in Running /\ started = 2

Sleeping == {t \in Tasks : pc[t] = "start_sleep"}

\* C15: backend_started is emitted once per successful spawn: by the start()
\* that spawned, at the end of its grace period, with the new handle in the slot,
\* in the step in which it returns "started"; a call that returns anything else
\* emits nothing, and nothing else emits it.
C15_BackendStartedOnce ==
    /\ [](started + Cardinality(Sleeping) = Cardinality(Spawned))
    /\ [][/\ started' # started =>
                \E t \in Tasks :
                    /\ pc[t] = "start_sleep" /\ pc'[t] = "idle" /\ op[t] = "start"
                    /\ started' = started + 1
                    /\ slot \in Spawned /\ slot' = slot
                    /\ last'.op = "start" /\ last'.res = StartedOk /\ last'.slot = slot
          /\ \A t \in Tasks :
                (lock = t /\ lock' # t) =>
                    started' = IF last'.res = StartedOk THEN started + 1 ELSE started
       ]_supVars

\* C15 witness: one backend_started for the first child; the start() that
\* spawned the second child is still in its grace period and has emitted none.
C15_Witness ==
    /\ started = 1 /\ Cardinality(Spawned) = 2
    /\ \E t \in Tasks : pc[t] = "start_sleep" /\ lock = t /\ slot \in Running

\* -------------------------------------------------- poller: termination
EndsRun(r) ==
    \/ Last(outcomes[r]) = "transport"
    \/ Last(outcomes[r]) = "ok" /\ status[r].completed

\* C16: a poll run ends only by a completed snapshot or a failed request: a poll
\* that yields neither leaves the run polling, however many polls came before,
\* and the run ends in no other step; under fair scheduling, against a remote
\* service that eventually is finished or unreachable, every run ends.
C16_Termination ==
    /\ \A r \in Runs : (rpc[r] = "polling") ~> (rpc[r] = "done")
    /\ [](\A r \in Runs : rpc[r] = "done" <=> (Polled(r) /\ EndsRun(r)))
    /\ [][\A r \in Runs : (rpc[r] = "polling" /\ rpc'[r] # "polling") =>
            (JustPolled(r) /\ rpc'[r] = "done")]_vars

\* C16 witness: a run polled on after a body it could not decode and after a
\* snapshot that was not completed, and ended at the completed one.
C16_Witness ==
    \E r \in Runs :
        /\ outcomes[r] = <<"decode", "ok", "ok">> /\ rpc[r] = "done"
        /\ status[r].completed /\ pollsLeft = 0

\* --------------------------------------------- supervisor: shell shutdown
\* C17: once a stop() task spawned by a window close request has returned and
\* the auto-start task has finished, with no call in progress, the slot is empty
\* and no child the supervisor launched is live.
C17_TornDown ==
    ((\A t \in Tasks : pc[t] = "idle") /\ "window_close" \in {last.op, before.op})
        => (slot = None /\ Running = {})

\* ------------------------------------------- supervisor: claims on stop()
AfterFailedKill == last.op = "stop" /\ last.res = KillFailed

\* C18: stop() leaves the slot empty whatever it returns. When the kill fails
\* it returns the error with the handle already out of the slot and dropped
\* without a wait, the child being left as it was; the stop() after it returns
\* "was not running", and the start() after it finds the slot empty, checks no
\* child and goes straight to the spawn, which stores a child not seen before.
C18_StopEmptiesSlot ==
    [][\A t \in Tasks :
        /\ StopReturns(t) => (slot' = None /\ last'.slot = None /\ held'[t] = None)
        /\ (StopReturns(t) /\ pc[t] = "stop_take" /\ slot # None)
             => (last'.res = KillFailed /\ child' = child /\ held' = held)
        /\ (StopReturns(t) /\ AfterFailedKill)
             => (pc[t] = "stop_take" /\ last'.res = WasNotRunning /\ child' = child)
        /\ (pc[t] = "start_check" /\ pc'[t] # "start_check" /\ AfterFailedKill)
             => (slot = None /\ pc'[t] = "start_spawn" /\ child' = child /\ last' = last)
        /\ (pc[t] = "start_spawn" /\ pc'[t] = "start_sleep" /\ AfterFailedKill)
             => (slot' \notin Spawned /\ slot' \in Running')
      ]_supVars

\* C18 witness: a stop() whose kill failed, then a start() that spawned a new
\* child beside the one the stop() had dropped.
C18_Witness ==
    /\ before.op = "stop" /\ before.res = KillFailed /\ before.slot = None
    /\ last.op = "start" /\ last.res = StartedOk
    /\ slot = last.slot /\ Cardinality(Running) = 2

\* ---------------------------------------------------- poller: watermark
Max(a, b) == IF a >= b THEN a ELSE b

\* C19: the watermark of a run starts at 0, never decreases, and after each
\* decoded snapshot is the larger of its old value and the snapshot's log
\* length, so it is the longest log length decoded so far; the run's
\* log_message events are as many as the watermark. A poll emits the
\* snapshot's entries at the positions above the old watermark up to the new
\* one: none, with the watermark unchanged, when the snapshot's logs are not
\* longer than the watermark.
C19_Watermark ==
    /\ [](\A r \in Runs :
            /\ Len(Delivered(r)) = last_log_count[r]
            /\ Len(status[r].logs) <= last_log_count[r]
            /\ ~Polled(r) => last_log_count[r] = 0)
    /\ [][\A r \in Runs :
            /\ last_log_count'[r] >= last_log_count[r]
            /\ (JustPolled(r) /\ Last(outcomes'[r]) = "ok") =>
                  /\ last_log_count'[r] = Max(last_log_count[r], Len(status'[r].logs))
                  /\ LogsOfPoll(r, NumPolls(r))' =
                        SubSeq(status'[r].logs, last_log_count[r] + 1, last_log_count'[r])
                  /\ Len(status'[r].logs) <= last_log_count[r] =>
                        (LogsOfPoll(r, NumPolls(r))' = <<>>
                            /\ last_log_count'[r] = last_log_count[r])
       ]_vars

\* C19 witness: after a snapshot with two entries, a shorter one and then one
\* of the same length with other entries were decoded: nothing more was
\* delivered and the watermark stayed at 2.
C19_Witness ==
    \E r \in Runs :
        /\ outcomes[r] = <<"ok", "ok", "ok">> /\ ~appendOnly[r]
        /\ LogsOfPoll(r, 1) = <<"a", "b">> /\ LogsOfPoll(r, 2) = <<>> /\ LogsOfPoll(r, 3) = <<>>
        /\ status[r].logs = <<"b", "a">> /\ last_log_count[r] = 2

\* ------------------------------------------ poller: unmarked completion
BareCompletion(r) ==
    /\ Polled(r) /\ Last(outcomes[r]) = "ok"
    /\ status[r].completed /\ status[r].status_report = <<>> /\ status[r].error = <<>>

\* C20: a decoded snapshot with completed set and neither report nor error ends
\* the run after that poll's update_progress and log_message events alone: the
\* run has ended, for good, and has emitted no update_complete and no
\* update_error at all.
C20_UnmarkedCompletion ==
    /\ [](\A r \in Runs : BareCompletion(r) =>
            LET ev == EventsOfPoll(r, NumPolls(r)) IN
            /\ rpc[r] = "done"
            /\ ev # <<>> /\ ev[1].name = "update_progress"
            /\ \A i \in 2..Len(ev) : ev[i].name = "log_message"
            /\ Last(events[r]) = Last(ev)
            /\ EventsNamed(r, "update_complete") = <<>>
            /\ EventsNamed(r, "update_error") = <<>>)
    /\ [][\A r \in Runs : BareCompletion(r) =>
            (rpc'[r] = "done" /\ events'[r] = events[r] /\ outcomes'[r] = outcomes[r])]_vars

\* C20 witness: the second snapshot was completed with no report and no error;
\* the run ended having emitted progress, one log entry and progress.
C20_Witness ==
    \E r \in Runs :
        /\ BareCompletion(r) /\ outcomes[r] = <<"ok", "ok">> /\ rpc[r] = "done"
        /\ Names(events[r]) = <<"update_progress", "log_message", "update_progress">>
====
